---- MODULE Spec2Model ----
(***************************************************************************)
(* adstxt-mcp-server: the HTTP client (src/api/client.ts), the per-tool    *)
(* operations (src/tools/*.ts) and the call-tool dispatcher (src/index.ts) *)
(*                                                                         *)
(* A JavaScript object is a TLA+ record whose DOMAIN is the set of keys    *)
(* that are present; a key that is not in the DOMAIN reads as undefined.   *)
(* The empty object {} is the empty function << >>.                        *)
(***************************************************************************)
EXTENDS Integers, Sequences, FiniteSets, TLC

(* ---------------------------------------------------------------------- *)
(* Bounds of the model                                                     *)
(* ---------------------------------------------------------------------- *)

\* largest retry budget (API_RETRIES) the client specification is run with
MaxRetries == 3

\* largest retry budget the tool specification is run with
MaxToolRetries == 1

\* how far a retry count may run past the budget before the model stops
MaxOverrun == 1

(* ---------------------------------------------------------------------- *)
(* Program constants                                                       *)
(* ---------------------------------------------------------------------- *)

DefaultTimeout == 30000
DefaultRetries == 3
BaseDelayMs == 1000
MaxSellerIds == 100
MaxDomains == 50

(* ---------------------------------------------------------------------- *)
(* JavaScript helpers                                                      *)
(* ---------------------------------------------------------------------- *)

\* o.k is not undefined
Has(o, k) == k \in DOMAIN o

\* the object {}
EmptyObject == << >>

\* a string is falsy exactly when it is empty
Truthy(s) == s # ""

\* o?.k is a non-empty string (o?.k || fallback takes o.k)
HasTruthy(o, k) == Has(o, k) /\ Truthy(o[k])

RECURSIVE Pow2(_)
Pow2(n) == IF n <= 0 THEN 1 ELSE 2 * Pow2(n - 1)

(* ---------------------------------------------------------------------- *)
(* What one HTTP attempt can end with                                      *)
(* ---------------------------------------------------------------------- *)

\* bodies of error responses: JSON objects with or without an error member,
\* and a non-JSON body (kept under the key "text")
StructuredBodies ==
  { [error |-> [code |-> "NOT_FOUND", message |-> "Domain not found"], requestId |-> "r-17"],
    [error |-> [code |-> "RATE_LIMIT", message |-> "Too many requests"]] }

PartialBodies ==
  { [error |-> [code |-> "VALIDATION_ERROR"]],
    [error |-> [message |-> "only a message"]],
    [error |-> [code |-> "", message |-> ""]] }

PlainBodies == { EmptyObject, [text |-> "Bad Gateway"] }

ErrorBodies == StructuredBodies \cup PartialBodies \cup PlainBodies

TimeoutCodes == {"ECONNABORTED", "ETIMEDOUT"}

\* an AxiosError that carries the response of the attempt
ResponseError(code, status, body, msg) ==
  [isAxiosError |-> TRUE, config |-> TRUE, code |-> code, message |-> msg,
   response |-> [status |-> status, data |-> body]]

\* an AxiosError without a response
RequestError(code, msg) ==
  [isAxiosError |-> TRUE, config |-> TRUE, code |-> code, message |-> msg]

ServerErrors ==
  { ResponseError("ERR_BAD_RESPONSE", 500, b, "Request failed with status code 500") :
      b \in ErrorBodies }
  \cup { ResponseError("ERR_BAD_RESPONSE", 503, EmptyObject, "Request failed with status code 503") }

ClientErrors ==
  { ResponseError("ERR_BAD_REQUEST", 404, b, "Request failed with status code 404") :
      b \in StructuredBodies \cup PlainBodies }
  \cup { ResponseError("ERR_BAD_REQUEST", 499, EmptyObject, "Request failed with status code 499") }

TimeoutErrors ==
  { RequestError(c, "timeout of 30000ms exceeded") : c \in TimeoutCodes }

\* a timeout-class error to which the response received so far is attached
TimeoutWithResponse ==
  { ResponseError("ECONNABORTED", 504, b, "timeout of 30000ms exceeded") :
      b \in { EmptyObject, [error |-> [code |-> "RATE_LIMIT", message |-> "Too many requests"]] } }

NetworkErrors ==
  { RequestError("ERR_NETWORK", "Network Error"),
    RequestError("ECONNREFUSED", "connect ECONNREFUSED") }

\* what is thrown is not an AxiosError: an Error, or a value that is no Error
OtherErrors ==
  { [isAxiosError |-> FALSE, isError |-> TRUE, message |-> "Converting circular structure to JSON"],
    [isAxiosError |-> FALSE, isError |-> FALSE] }

Errors ==
  ServerErrors \cup ClientErrors \cup TimeoutErrors \cup TimeoutWithResponse
    \cup NetworkErrors \cup OtherErrors

(* ---------------------------------------------------------------------- *)
(* ApiClient: the pure parts                                               *)
(* ---------------------------------------------------------------------- *)

\* shouldRetry with the status test widened to every error status
shouldRetryAnyStatus(error) ==
  \/ Has(error, "code") /\ error.code = "ECONNABORTED"
  \/ Has(error, "code") /\ error.code = "ETIMEDOUT"
  \/ Has(error, "response") /\ Has(error.response, "status") /\ error.response.status >= 400

shouldRetry(error) ==
  \/ Has(error, "code") /\ error.code = "ECONNABORTED"
  \/ Has(error, "code") /\ error.code = "ETIMEDOUT"
  \/ Has(error, "response") /\ Has(error.response, "status") /\ error.response.status >= 500

\* delay growing linearly instead of doubling
delayLinear(retryCount) == (retryCount + 1) * BaseDelayMs

\* the delay the interceptor awaits when the config's __retryCount is retryCount
delay(retryCount) == Pow2(retryCount) * BaseDelayMs

\* the interceptor's decision with the budget test off by one (<=)
interceptorRetriesOnceMore(error, retryCount, budget) ==
  /\ Has(error, "config")
  /\ (\/ Has(error, "code") /\ error.code \in {"ECONNABORTED", "ETIMEDOUT"}
      \/ Has(error, "response") /\ error.response.status >= 500)
  /\ retryCount <= budget

\* the interceptor's decision with the budget test one short (< retries - 1)
interceptorRetriesOnceLess(error, retryCount, budget) ==
  /\ Has(error, "config")
  /\ (\/ Has(error, "code") /\ error.code \in {"ECONNABORTED", "ETIMEDOUT"}
      \/ Has(error, "response") /\ error.response.status >= 500)
  /\ retryCount < budget - 1

\* the interceptor's decision for a rejected attempt
\* an interceptor without the budget test
interceptorRetriesUnbounded(error, retryCount, budget) ==
  Has(error, "config") /\ shouldRetry(error)

\* an interceptor that counts only the 5xx responses against the budget
interceptorRetriesTimeoutsFree(error, retryCount, budget) ==
  /\ Has(error, "config")
  /\ shouldRetry(error)
  /\ (Has(error, "code") /\ error.code \in TimeoutCodes) \/ retryCount < budget

interceptorRetries(error, retryCount, budget) ==
  /\ Has(error, "config")
  /\ shouldRetry(error)
  /\ retryCount < budget

\* handleError with the timeout test made before the response test
handleErrorTimeoutFirst(error, tmo) ==
  IF error.isAxiosError
  THEN IF Has(error, "code") /\ error.code \in {"ECONNABORTED", "ETIMEDOUT"}
       THEN [code |-> "TIMEOUT", message |-> "Request timeout", details |-> [timeout |-> tmo]]
       ELSE IF Has(error, "response")
            THEN LET data == error.response.data
                     hasErr == Has(data, "error")
                 IN [code |-> IF hasErr /\ HasTruthy(data.error, "code")
                              THEN data.error.code ELSE "SERVER_ERROR",
                     message |-> IF hasErr /\ HasTruthy(data.error, "message")
                                 THEN data.error.message ELSE error.message,
                     details |-> data]
            ELSE [code |-> "NETWORK_ERROR", message |-> error.message]
  ELSE [code |-> "UNKNOWN_ERROR",
        message |-> IF error.isError THEN error.message ELSE "Unknown error occurred"]

\* handleError passing on the error member instead of the whole body
handleErrorDetailsOfError(error, tmo) ==
  IF error.isAxiosError
  THEN IF Has(error, "response")
       THEN LET data == error.response.data
                hasErr == Has(data, "error")
            IN [code |-> IF hasErr /\ HasTruthy(data.error, "code")
                         THEN data.error.code ELSE "SERVER_ERROR",
                message |-> IF hasErr /\ HasTruthy(data.error, "message")
                            THEN data.error.message ELSE error.message,
                details |-> IF hasErr THEN data.error ELSE data]
       ELSE IF Has(error, "code") /\ error.code \in {"ECONNABORTED", "ETIMEDOUT"}
            THEN [code |-> "TIMEOUT", message |-> "Request timeout",
                  details |-> [timeout |-> tmo]]
            ELSE [code |-> "NETWORK_ERROR", message |-> error.message]
  ELSE [code |-> "UNKNOWN_ERROR",
        message |-> IF error.isError THEN error.message ELSE "Unknown error occurred"]

\* handleError that knows ECONNABORTED only
handleErrorAbortOnly(error, tmo) ==
  IF error.isAxiosError
  THEN IF Has(error, "response")
       THEN LET data == error.response.data
                hasErr == Has(data, "error")
            IN [code |-> IF hasErr /\ HasTruthy(data.error, "code")
                         THEN data.error.code ELSE "SERVER_ERROR",
                message |-> IF hasErr /\ HasTruthy(data.error, "message")
                            THEN data.error.message ELSE error.message,
                details |-> data]
       ELSE IF Has(error, "code") /\ error.code = "ECONNABORTED"
            THEN [code |-> "TIMEOUT", message |-> "Request timeout",
                  details |-> [timeout |-> tmo]]
            ELSE [code |-> "NETWORK_ERROR", message |-> error.message]
  ELSE [code |-> "UNKNOWN_ERROR",
        message |-> IF error.isError THEN error.message ELSE "Unknown error occurred"]

handleError(error, tmo) ==
  IF error.isAxiosError
  THEN IF Has(error, "response")
       THEN LET data == error.response.data
                hasErr == Has(data, "error")
            IN [code |-> IF hasErr /\ HasTruthy(data.error, "code")
                         THEN data.error.code ELSE "SERVER_ERROR",
                message |-> IF hasErr /\ HasTruthy(data.error, "message")
                            THEN data.error.message ELSE error.message,
                details |-> data]
       ELSE IF Has(error, "code") /\ error.code \in {"ECONNABORTED", "ETIMEDOUT"}
            THEN [code |-> "TIMEOUT", message |-> "Request timeout",
                  details |-> [timeout |-> tmo]]
            ELSE [code |-> "NETWORK_ERROR", message |-> error.message]
  ELSE [code |-> "UNKNOWN_ERROR",
        message |-> IF error.isError THEN error.message ELSE "Unknown error occurred"]

\* the class of an attempt's outcome, as the retry policy sees it
Class(outcome) ==
  IF ~Has(outcome, "isAxiosError") THEN "ok"
  ELSE IF ~outcome.isAxiosError THEN "other"
  ELSE IF Has(outcome, "code") /\ outcome.code \in TimeoutCodes
       THEN IF Has(outcome, "response") THEN "timeoutWithResponse" ELSE "timeout"
  ELSE IF ~Has(outcome, "response") THEN "network"
  ELSE IF outcome.response.status >= 500 THEN "status5xx" ELSE "status4xx"

(* ---------------------------------------------------------------------- *)
(* Successful responses                                                    *)
(* ---------------------------------------------------------------------- *)

\* data payloads of the backend (opaque to this layer, but for the cache result)
DataPayloads ==
  { [status |-> "success", content |-> "google.com, pub-1, DIRECT", fetched_at |-> "2025-01-01T00:00:00Z",
     domain |-> "cdn.example.com", url |-> "https://example.com/ads.txt"],
    [status |-> "success", content |-> "appnexus.com, 42, RESELLER", domain |-> "example.com"],
    [status |-> "not_found", domain |-> "example.com"],
    [status |-> "error", content |-> "stale.example, 7, DIRECT", domain |-> "example.com"],
    [optimized_content |-> "google.com, pub-1, DIRECT", original_length |-> 40,
     optimized_length |-> 25, domain |-> "backend.example", x_extra |-> "kept"] }

\* JSON bodies of 2xx responses that carry data and error together: the
\* client does not look into the body it relays
MixedBodies ==
  { [success |-> FALSE, data |-> [status |-> "not_found", domain |-> "example.com"],
     error |-> [code |-> "NOT_FOUND", message |-> "No cache for domain"]],
    [success |-> TRUE, data |-> [status |-> "not_found", domain |-> "example.com"],
     error |-> [code |-> "PARTIAL", message |-> "Partial result"]] }

\* JSON bodies of 2xx responses: envelopes as the backend shapes them
OkBodies ==
  { [success |-> TRUE, data |-> d] : d \in DataPayloads }
  \cup MixedBodies
  \cup { [success |-> TRUE],
         [success |-> FALSE, error |-> [code |-> "NOT_FOUND", message |-> "No cache for domain"]],
         [success |-> FALSE, error |-> [code |-> "RATE_LIMIT", message |-> ""]],
         [success |-> FALSE] }

OkResponse(body) == [status |-> 200, data |-> body]

(* ---------------------------------------------------------------------- *)
(* State                                                                   *)
(* ---------------------------------------------------------------------- *)

\* the invocations the host may have in flight
Inv == {1, 2}

VARIABLES
  processEnv, \* process.env: the environment variables that are set
  retries,   \* ApiClient.retries
  timeout,   \* ApiClient.timeout
  active,    \* the invocations this run uses
  pc,        \* per invocation: "idle", "sent" (an attempt is in flight),
             \* "delay" (the backoff timer is pending), "done"
  req,       \* per invocation: the request being made (config, headers, __retryCount,
             \* the error the first interceptor call holds, history)
  frame,     \* per invocation: the caller of the client (client call, tool operation,
             \* dispatcher), with what its operation ended with
  log,       \* per invocation: the finished client calls, in order
  result,    \* per invocation: what the invocation ended with
  advertised \* the answer to the last list-tools query

vars == <<processEnv, retries, timeout, active, pc, req, frame, log, result, advertised>>

NoReq == [idle |-> TRUE]
NoFrame == [via |-> "none"]
NoResult == [pending |-> TRUE]

\* a request config as axios receives it from get / post / getRaw
getConfig(path) == [method |-> "get", url |-> path]
postConfig(path, data) == [method |-> "post", url |-> path, data |-> data]
postConfigNoData(path) == [method |-> "post", url |-> path]
getRawConfig(path) == [method |-> "get", url |-> path, responseType |-> "text"]

\* the environments the server is started in: API_KEY set or not
Environments == { EmptyObject, [API_KEY |-> "secret-key"] }

\* the headers of the axios instance, sent with every request of the client
defaultHeaders ==
  ("Content-Type" :> "application/json") @@ ("User-Agent" :> "adstxt-mcp-server/0.1.0")

\* a request that starts with the retry count of a request still in flight
NewRequestSharedCount(entry, config) ==
  LET inFlight == { j \in Inv : Has(req[j], "retryCount") }
      count == IF inFlight = {} THEN 0
               ELSE LET j == CHOOSE j \in inFlight :
                               \A k \in inFlight : req[k].retryCount <= req[j].retryCount
                    IN req[j].retryCount
  IN [entry |-> entry, config |-> config, headers |-> defaultHeaders,
      retryCount |-> count, attempts |-> 1,
      delays |-> << >>, hist |-> << >>, pendingDelay |-> 0]

\* the first attempt of a request: the config carries no __retryCount
NewRequest(entry, config) ==
  [entry |-> entry, config |-> config, headers |-> defaultHeaders,
   retryCount |-> 0, attempts |-> 1,
   delays |-> << >>, hist |-> << >>, pendingDelay |-> 0]

(* ---------------------------------------------------------------------- *)
(* Input validation (the zod schemas of src/tools/*.ts)                    *)
(* ---------------------------------------------------------------------- *)

\* z.string() without .min(1): the empty string passes
StringOnly(input, k) == Has(input, k)

\* z.string().min(1): the key is present and the string is not empty
StringMin1(input, k) == Has(input, k) /\ input[k] # ""

\* z.enum(values).optional()
OptionalEnum(input, k, values) == Has(input, k) => input[k] \in values

\* z.array(z.string()).min(lo).max(hi)
ArrayBetween(input, k, lo, hi) ==
  Has(input, k) /\ Len(input[k]) >= lo /\ Len(input[k]) <= hi

\* z.object strips the keys the schema does not declare
Strip(input, keys) == [k \in (DOMAIN input) \cap keys |-> input[k]]

\* a default that overrides the value the caller supplied
WithDefaultAlways(obj, k, v) == (k :> v) @@ obj

\* .optional().default(v)
WithDefault(obj, k, v) == IF Has(obj, k) THEN obj ELSE obj @@ (k :> v)

\* the member k: v of an object literal, dropped when v is undefined
Member(k, obj, from) == IF Has(obj, from) THEN (k :> obj[from]) ELSE EmptyObject

Levels == {"level1", "level2"}
Languages == {"en", "ja"}

\* the names of the exported tool operations
Ops ==
  { "validateAdsTxtQuick", "validateAdsTxt", "optimizeAdsTxt", "optimizeAdsTxtByDomain",
    "getAdsTxtCache", "getDomainInfo", "getBatchDomainInfo", "getSellersJson",
    "getSellersJsonMetadata", "searchSellersBatch", "getSellerById", "getErrorHelp" }

\* the fields of the input that violate the operation's schema
Issues(op, input) ==
  CASE op \in {"validateAdsTxtQuick", "validateAdsTxt"} ->
         { k \in {"content"} : ~StringMin1(input, k) }
    [] op = "optimizeAdsTxt" ->
         { k \in {"content"} : ~StringMin1(input, k) }
           \cup { k \in {"level"} : ~OptionalEnum(input, k, Levels) }
    [] op = "optimizeAdsTxtByDomain" ->
         { k \in {"domain"} : ~StringMin1(input, k) }
           \cup { k \in {"level"} : ~OptionalEnum(input, k, Levels) }
    [] op \in {"getAdsTxtCache", "getDomainInfo", "getSellersJson", "getSellersJsonMetadata"} ->
         { k \in {"domain"} : ~StringMin1(input, k) }
    [] op = "getBatchDomainInfo" ->
         { k \in {"domains"} : ~ArrayBetween(input, k, 1, MaxDomains) }
    [] op = "searchSellersBatch" ->
         { k \in {"domain"} : ~StringMin1(input, k) }
           \cup { k \in {"seller_ids"} : ~ArrayBetween(input, k, 1, MaxSellerIds) }
    [] op = "getSellerById" ->
         { k \in {"domain", "seller_id"} : ~StringMin1(input, k) }
    [] op = "getErrorHelp" ->
         { k \in {"language"} : ~OptionalEnum(input, k, Languages) }

\* schema.parse(input) when the input is valid: declared keys, defaults filled in
Parsed(op, input) ==
  CASE op = "validateAdsTxtQuick" ->
         WithDefault(Strip(input, {"content", "checkDuplicates"}), "checkDuplicates", TRUE)
    [] op = "validateAdsTxt" -> Strip(input, {"content", "publisherDomain"})
    [] op = "optimizeAdsTxt" ->
         WithDefault(Strip(input, {"content", "publisher_domain", "level"}), "level", "level1")
    [] op = "optimizeAdsTxtByDomain" ->
         WithDefault(WithDefault(Strip(input, {"domain", "level", "force"}),
                                 "level", "level1"), "force", FALSE)
    [] op = "getAdsTxtCache" -> WithDefault(Strip(input, {"domain", "force"}), "force", FALSE)
    [] op \in {"getDomainInfo", "getSellersJson", "getSellersJsonMetadata"} ->
         Strip(input, {"domain"})
    [] op = "getBatchDomainInfo" -> Strip(input, {"domains"})
    [] op = "searchSellersBatch" -> Strip(input, {"domain", "seller_ids"})
    [] op = "getSellerById" -> Strip(input, {"domain", "seller_id"})
    [] op = "getErrorHelp" ->
         WithDefault(Strip(input, {"errorCode", "language"}), "language", "en")

\* the fields a schema can reject, in the order their issues are listed
SchemaFields ==
  <<"content", "domain", "domains", "language", "level", "seller_id", "seller_ids">>

\* ZodError.message lists the issues, each with the path of its field
RECURSIVE ZodMessage(_, _)
ZodMessage(issues, n) ==
  IF n > Len(SchemaFields) THEN ""
  ELSE (IF SchemaFields[n] \in issues
        THEN "[path: " \o SchemaFields[n] \o "]" ELSE "") \o ZodMessage(issues, n + 1)

\* schema.parse throws a ZodError that lists the violated fields
ZodError(issues) ==
  [isError |-> TRUE, name |-> "ZodError", issues |-> issues, message |-> ZodMessage(issues, 1)]

(* ---------------------------------------------------------------------- *)
(* The tool operations (src/tools/*.ts)                                    *)
(* ---------------------------------------------------------------------- *)

queryString(parsed) == IF parsed.force THEN "?force=true" ELSE ""

\* the client call an operation makes first, from its parsed input
FirstCall(op, parsed) ==
  CASE op = "validateAdsTxtQuick" ->
         [entry |-> "post",
          config |-> postConfig("/api/v1/adstxt/validate/quick",
                       Member("content", parsed, "content")
                         @@ Member("checkDuplicates", parsed, "checkDuplicates"))]
    [] op = "validateAdsTxt" ->
         [entry |-> "post",
          config |-> postConfig("/api/adsTxt/process",
                       Member("content", parsed, "content")
                         @@ Member("publisher_domain", parsed, "publisherDomain"))]
    [] op = "optimizeAdsTxt" ->
         [entry |-> "post",
          config |-> postConfig("/api/adsTxt/optimize",
                       Member("content", parsed, "content")
                         @@ Member("publisher_domain", parsed, "publisher_domain")
                         @@ Member("level", parsed, "level"))]
    [] op \in {"optimizeAdsTxtByDomain", "getAdsTxtCache"} ->
         [entry |-> "get",
          config |-> getConfig("/api/adsTxtCache/domain/" \o parsed.domain \o queryString(parsed))]
    [] op = "getDomainInfo" ->
         [entry |-> "get", config |-> getConfig("/api/v1/domains/" \o parsed.domain \o "/info")]
    [] op = "getBatchDomainInfo" ->
         [entry |-> "post",
          config |-> postConfig("/api/v1/domains/batch/info", Member("domains", parsed, "domains"))]
    [] op = "getSellersJson" ->
         [entry |-> "get", config |-> getConfig("/api/sellersJson/" \o parsed.domain)]
    [] op = "getSellersJsonMetadata" ->
         [entry |-> "get",
          config |-> getConfig("/api/sellersJson/" \o parsed.domain \o "/metadata")]
    [] op = "searchSellersBatch" ->
         [entry |-> "post",
          config |-> postConfig("/api/v1/sellersjson/" \o parsed.domain \o "/sellers/batch",
                       Member("seller_ids", parsed, "seller_ids"))]
    [] op = "getSellerById" ->
         [entry |-> "get",
          config |-> getConfig("/api/sellersJson/" \o parsed.domain \o "/seller/"
                                 \o parsed.seller_id)]
    [] op = "getErrorHelp" ->
         [entry |-> "getRaw",
          config |-> getRawConfig("/help/" \o parsed.language \o "/warnings.md")]

\* the message an operation raises with when the envelope carries none
GenericMessage(op, step) ==
  CASE op \in {"validateAdsTxtQuick", "validateAdsTxt"} -> "Validation failed"
    [] op = "optimizeAdsTxt" -> "Optimization failed"
    [] op = "optimizeAdsTxtByDomain" ->
         IF step = 1 THEN "Failed to fetch ads.txt cache" ELSE "Optimization failed"
    [] op = "getAdsTxtCache" -> "Failed to fetch ads.txt cache"
    [] op = "getDomainInfo" -> "Failed to fetch domain info"
    [] op = "getBatchDomainInfo" -> "Failed to fetch batch domain info"
    [] op = "getSellersJson" -> "Failed to fetch sellers.json"
    [] op = "getSellersJsonMetadata" -> "Failed to fetch sellers.json metadata"
    [] op = "searchSellersBatch" -> "Batch search failed"
    [] op = "getSellerById" -> "Seller search failed"

\* new Error(message)
Error(message) == [isError |-> TRUE, name |-> "Error", message |-> message]

Return(value) == [kind |-> "return", value |-> value]
ReturnUndefined == [kind |-> "return"]
Throw(error) == [kind |-> "throw", error |-> error]
Await(call, saved) == [kind |-> "await", call |-> call, saved |-> saved]

\* response.success is truthy
IsSuccess(response) == Has(response, "success") /\ response.success = TRUE

\* a failure that drops the backend's message
FailureOfGenericOnly(op, step, response) == Throw(Error(GenericMessage(op, step)))

\* if (!response.success) throw new Error(response.error?.message || generic)
FailureOf(op, step, response) ==
  Throw(Error(IF Has(response, "error") /\ HasTruthy(response.error, "message")
              THEN response.error.message ELSE GenericMessage(op, step)))

\* a return that keeps only the members the result types declare
DataOfKnownFields(response) ==
  IF Has(response, "data")
  THEN Return([k \in (DOMAIN response.data) \ {"x_extra"} |-> response.data[k]])
  ELSE ReturnUndefined

\* return response.data
DataOf(response) == IF Has(response, "data") THEN Return(response.data) ELSE ReturnUndefined

(* ---------------------------------------------------------------------- *)
(* get_error_help: the local text processing (src/tools/help.ts)           *)
(* ---------------------------------------------------------------------- *)

\* A document is the sequence of its lines (content.split('\n')). A line is
\* its text together with what the code asks of it: whether it starts with
\* '###', whether it is blank, and the error codes whose marker
\* '(Code: <code>)' the pattern finds in it.
Line(text, starts, marks) ==
  [text |-> text, startsWithH3 |-> starts, blank |-> text = "", marks |-> marks]

Docs ==
  { << Line("# Warnings", FALSE, {}),
       Line("### File not found", TRUE, {}),
       Line("The file is missing (Code: 10010)", FALSE, {"10010"}),
       Line("", FALSE, {}),
       Line("### Missing fields (Code: 11010)", TRUE, {"11010"}),
       Line("#### Details", TRUE, {}),
       Line("See also (code: 10010)", FALSE, {"10010"}),
       Line("### Vendor warning (Code: 99999)", TRUE, {"99999"}),
       Line("Not in the anchor table", FALSE, {}) >>,
    << Line("Intro (Code: 11010)", FALSE, {"11010"}),
       Line("### Missing fields", TRUE, {}),
       Line("(Code: 11010)", FALSE, {"11010"}),
       Line("", FALSE, {}) >> }

RECURSIVE TrimEnd(_)
TrimEnd(lines) ==
  IF lines # << >> /\ lines[Len(lines)].blank
  THEN TrimEnd(SubSeq(lines, 1, Len(lines) - 1)) ELSE lines

RECURSIVE TrimStart(_)
TrimStart(lines) ==
  IF lines # << >> /\ lines[1].blank THEN TrimStart(Tail(lines)) ELSE lines

\* String.prototype.trim on the joined lines
Trim(lines) == TrimEnd(TrimStart(lines))

\* an extraction that goes on to the first marker line that has a heading before it
extractErrorSectionAnyMatch(content, errorCode) ==
  LET hits == { i \in 1..Len(content) :
                  /\ errorCode \in content[i].marks
                  /\ \E j \in 1..i : content[j].startsWithH3 }
  IN IF hits = {} THEN << >>
     ELSE LET i == CHOOSE h \in hits : \A g \in hits : h <= g
              heads == { j \in 1..i : content[j].startsWithH3 }
              nexts == { j \in (i + 1)..Len(content) : content[j].startsWithH3 }
              startIdx == CHOOSE j \in heads : \A g \in heads : g <= j
              endIdx == IF nexts = {} THEN Len(content) + 1
                        ELSE CHOOSE j \in nexts : \A g \in nexts : j <= g
          IN Trim(SubSeq(content, startIdx, endIdx - 1))

\* the found section, or << >> for null
extractErrorSection(content, errorCode) ==
  LET hits == { i \in 1..Len(content) : errorCode \in content[i].marks }
  IN IF hits = {} THEN << >>
     ELSE LET i == CHOOSE h \in hits : \A g \in hits : h <= g
              heads == { j \in 1..i : content[j].startsWithH3 }
              nexts == { j \in (i + 1)..Len(content) : content[j].startsWithH3 }
          IN IF heads = {} THEN << >>
             ELSE LET startIdx == CHOOSE j \in heads : \A g \in heads : g <= j
                      endIdx == IF nexts = {} THEN Len(content) + 1
                                ELSE CHOOSE j \in nexts : \A g \in nexts : j <= g
                  IN Trim(SubSeq(content, startIdx, endIdx - 1))

anchorMap ==
  [c \in {"10010", "10020", "10030", "10040", "10050", "11010", "11020", "11030", "11040",
          "11050", "12010", "12020", "12030", "12040", "12050", "12060", "13010", "13020",
          "13030", "13040", "13050", "13060", "14020", "14030", "14040", "14050", "14060",
          "15020", "15030", "16010", "16020", "16030", "16040", "16050", "16060", "16070",
          "16080", "16090", "17010", "17020", "17030"} |->
     CASE c = "10010" -> "file-not-found"
       [] c = "10020" -> "invalid-content-type"
       [] c = "10030" -> "timeout"
       [] c \in {"10040", "10050"} -> "too-many-redirects"
       [] c = "11010" -> "missing-fields"
       [] c = "11020" -> "invalid-relationship"
       [] c = "11030" -> "invalid-domain"
       [] c = "11040" -> "no-valid-entries"
       [] c = "11050" -> "whitespace-in-fields"
       [] c \in {"12010", "13010"} -> "no-sellers-json"
       [] c = "12020" -> "direct-account-id-not-in-sellers-json"
       [] c \in {"12030", "13030"} -> "domain-mismatch"
       [] c \in {"12040", "12050"} -> "direct-not-publisher"
       [] c \in {"12060", "13060"} -> "seller-id-not-unique"
       [] c = "13020" -> "reseller-account-id-not-in-sellers-json"
       [] c \in {"13040", "13050"} -> "reseller-not-intermediary"
       [] c = "14020" -> "invalid-subdomain-url"
       [] c = "14030" -> "invalid-subdomain"
       [] c = "14040" -> "invalid-subdomain-ads-txt"
       [] c = "14050" -> "subdomain-not-listed"
       [] c = "14060" -> "subdomain-contains-subdomains"
       [] c = "15020" -> "invalid-inventory-partner-domain"
       [] c = "15030" -> "inventory-partner-contains-partners"
       [] c = "16010" -> "invalid-manager-domain"
       [] c = "16020" -> "multiple-manager-domains-without-country"
       [] c = "16030" -> "invalid-country-code"
       [] c = "16040" -> "manager-without-sellers-json"
       [] c = "16050" -> "manager-without-entry"
       [] c = "16060" -> "manager-not-direct"
       [] c = "16070" -> "manager-sellers-json-without-id"
       [] c = "16080" -> "manager-sellers-json-domain-mismatch"
       [] c = "16090" -> "manager-sellers-json-not-publisher"
       [] c = "17010" -> "invalid-owner-domain"
       [] c = "17020" -> "multiple-owner-domains"
       [] c = "17030" -> "owner-domain-mismatch"]

getAnchorId(errorCode) ==
  IF errorCode \in DOMAIN anchorMap THEN anchorMap[errorCode] ELSE "invalid-format"

\* error instanceof Error
InstanceOfError(x) == Has(x, "isError") /\ x.isError

\* getErrorHelp once getRaw has settled with r
getErrorHelpAfter(parsed, r) ==
  IF Has(r, "raised")
  THEN Throw(Error("Failed to fetch error help: " \o
                   (IF InstanceOfError(r.raised) THEN r.raised.message ELSE "Unknown error")))
  ELSE LET content == r.returned
           section == IF HasTruthy(parsed, "errorCode")
                      THEN extractErrorSection(content, parsed.errorCode) ELSE << >>
       IN IF section # << >>
          THEN Return([content |-> section,
                       url |-> "https://adstxt-manager.jp/help/" \o parsed.language
                                 \o "/warnings.md#" \o getAnchorId(parsed.errorCode)])
          ELSE Return([content |-> content])

(* ---------------------------------------------------------------------- *)
(* The tool operations: from the call to the first await, and on           *)
(* ---------------------------------------------------------------------- *)

\* an operation from its call to its first await (or to the ZodError)
StartOp(op, input) ==
  IF Issues(op, input) # {}
  THEN Throw(ZodError(Issues(op, input)))
  ELSE Await(FirstCall(op, Parsed(op, input)), EmptyObject)

\* optimizeAdsTxtByDomain going on to optimize whatever the status of the cache result
optimizeByDomainAfterCacheAnyStatus(parsed, cacheResponse) ==
  IF ~IsSuccess(cacheResponse)
  THEN FailureOf("optimizeAdsTxtByDomain", 1, cacheResponse)
  ELSE IF ~Has(cacheResponse, "data")
       THEN Throw(Error("No ads.txt found for domain: " \o parsed.domain))
       ELSE Await([entry |-> "post",
                   config |-> postConfig("/api/adsTxt/optimize",
                                Member("content", cacheResponse.data, "content")
                                  @@ Member("publisher_domain", parsed, "domain")
                                  @@ Member("level", parsed, "level"))],
                  cacheResponse.data)

\* optimizeAdsTxtByDomain sending parsed.content, which the schema does not have
optimizeByDomainAfterCacheOwnContent(parsed, cacheResponse) ==
  IF ~IsSuccess(cacheResponse)
  THEN FailureOf("optimizeAdsTxtByDomain", 1, cacheResponse)
  ELSE IF ~Has(cacheResponse, "data")
          \/ ~(Has(cacheResponse.data, "status") /\ cacheResponse.data.status = "success")
       THEN Throw(Error("No ads.txt found for domain: " \o parsed.domain))
       ELSE Await([entry |-> "post",
                   config |-> postConfig("/api/adsTxt/optimize",
                                Member("content", parsed, "content")
                                  @@ Member("publisher_domain", parsed, "domain")
                                  @@ Member("level", parsed, "level"))],
                  cacheResponse.data)

\* optimizeAdsTxtByDomain once the cache fetch has returned cacheResponse
optimizeByDomainAfterCache(parsed, cacheResponse) ==
  IF ~IsSuccess(cacheResponse)
  THEN FailureOf("optimizeAdsTxtByDomain", 1, cacheResponse)
  ELSE IF ~Has(cacheResponse, "data")
          \/ ~(Has(cacheResponse.data, "status") /\ cacheResponse.data.status = "success")
       THEN Throw(Error("No ads.txt found for domain: " \o parsed.domain))
       ELSE Await([entry |-> "post",
                   config |-> postConfig("/api/adsTxt/optimize",
                                Member("content", cacheResponse.data, "content")
                                  @@ Member("publisher_domain", parsed, "domain")
                                  @@ Member("level", parsed, "level"))],
                  cacheResponse.data)

\* the merge with the spread written last: the optimize result's members win
mergeOptimizeResultSpreadLast(parsed, cacheData, optimizeResponse) ==
  LET spread == IF Has(optimizeResponse, "data") THEN optimizeResponse.data ELSE EmptyObject
  IN spread @@ ("domain" :> parsed.domain) @@ Member("fetched_at", cacheData, "fetched_at")

\* { ...optimizeResponse.data, domain: parsed.domain, fetched_at: cacheResponse.data.fetched_at }
mergeOptimizeResult(parsed, cacheData, optimizeResponse) ==
  LET spread == IF Has(optimizeResponse, "data") THEN optimizeResponse.data ELSE EmptyObject
      rest == [k \in (DOMAIN spread) \ {"domain", "fetched_at"} |-> spread[k]]
  IN rest @@ ("domain" :> parsed.domain) @@ Member("fetched_at", cacheData, "fetched_at")

\* an operation from the point where its client call settled with r
ContinueOp(op, parsed, step, saved, r) ==
  CASE op = "getErrorHelp" -> getErrorHelpAfter(parsed, r)
    [] op = "optimizeAdsTxtByDomain" /\ step = 1 ->
         optimizeByDomainAfterCache(parsed, r.returned)
    [] op = "optimizeAdsTxtByDomain" /\ step = 2 ->
         IF ~IsSuccess(r.returned) THEN FailureOf(op, 2, r.returned)
         ELSE Return(mergeOptimizeResult(parsed, saved, r.returned))
    [] OTHER ->
         IF ~IsSuccess(r.returned) THEN FailureOf(op, step, r.returned)
         ELSE DataOf(r.returned)

(* ---------------------------------------------------------------------- *)
(* The dispatcher (src/index.ts)                                           *)
(* ---------------------------------------------------------------------- *)

\* the tool catalog of the documentation (AGENT.md, README.md)
CatalogTools ==
  { "validate_adstxt_quick", "validate_adstxt", "optimize_adstxt", "optimize_adstxt_by_domain",
    "get_adstxt_cache", "get_sellers_json", "get_sellers_json_metadata", "search_sellers_batch",
    "get_seller_by_id", "get_domain_info", "get_batch_domain_info", "get_error_help" }

\* the operation that implements a catalog tool
OperationOf(name) ==
  CASE name = "validate_adstxt_quick" -> "validateAdsTxtQuick"
    [] name = "validate_adstxt" -> "validateAdsTxt"
    [] name = "optimize_adstxt" -> "optimizeAdsTxt"
    [] name = "optimize_adstxt_by_domain" -> "optimizeAdsTxtByDomain"
    [] name = "get_adstxt_cache" -> "getAdsTxtCache"
    [] name = "get_domain_info" -> "getDomainInfo"
    [] name = "get_batch_domain_info" -> "getBatchDomainInfo"
    [] name = "get_sellers_json" -> "getSellersJson"
    [] name = "get_sellers_json_metadata" -> "getSellersJsonMetadata"
    [] name = "search_sellers_batch" -> "searchSellersBatch"
    [] name = "get_seller_by_id" -> "getSellerById"
    [] name = "get_error_help" -> "getErrorHelp"

\* the names list-tools answers with (the tools array)
tools ==
  { "validate_adstxt_quick", "validate_adstxt", "optimize_adstxt", "get_adstxt_cache",
    "get_domain_info", "get_batch_domain_info", "get_sellers_json",
    "get_sellers_json_metadata", "search_sellers_batch", "get_seller_by_id",
    "get_error_help" }

\* the cases of the call-tool handler's switch
switchCases ==
  { "validate_adstxt_quick", "validate_adstxt", "optimize_adstxt", "get_adstxt_cache",
    "get_domain_info", "get_batch_domain_info", "get_sellers_json",
    "get_sellers_json_metadata", "search_sellers_batch", "get_seller_by_id",
    "get_error_help" }

McpError(code, message) ==
  [isError |-> TRUE, name |-> "McpError", code |-> code, message |-> message]

IsMcpError(x) == Has(x, "name") /\ x.name = "McpError"

\* JSON.stringify(result, null, 2): undefined stays undefined, an object is
\* written with the members that are not undefined
Stringify(outcome) ==
  IF Has(outcome, "value") THEN [type |-> "text", text |-> [json |-> outcome.value]]
  ELSE [type |-> "text"]

\* a catch block that wraps whatever it catches
WrapAlways(outcome) ==
  IF outcome.kind = "return" THEN Return([content |-> << Stringify(outcome) >>])
  ELSE Throw(McpError("InternalError",
                      IF InstanceOfError(outcome.error) THEN outcome.error.message
                      ELSE "Unknown error occurred"))

\* what the handler does with what the operation ended with
Wrap(outcome) ==
  IF outcome.kind = "return" THEN Return([content |-> << Stringify(outcome) >>])
  ELSE IF IsMcpError(outcome.error) THEN outcome
  ELSE Throw(McpError("InternalError",
                      IF InstanceOfError(outcome.error) THEN outcome.error.message
                      ELSE "Unknown error occurred"))

\* the call-tool handler from the request to its first await
StartCallTool(name, input) ==
  IF name \in switchCases THEN StartOp(OperationOf(name), input)
  ELSE Throw(McpError("MethodNotFound", "Unknown tool: " \o name))

(* ---------------------------------------------------------------------- *)
(* Inputs                                                                  *)
(* ---------------------------------------------------------------------- *)

\* a list of n strings
ListOf(n) == [i \in 1..n |-> IF i % 2 = 1 THEN "id-a" ELSE "id-b"]

ContentInputs ==
  { EmptyObject,
    [content |-> ""],
    [content |-> "google.com, pub-1, DIRECT"],
    [content |-> "google.com, pub-1, DIRECT", checkDuplicates |-> FALSE,
     publisherDomain |-> "example.com", publisher_domain |-> "example.org", level |-> "level2"],
    [content |-> "google.com, pub-1, DIRECT", level |-> "level3"],
    [level |-> "level1"] }

DomainInputs ==
  { EmptyObject,
    [domain |-> ""],
    [domain |-> "example.com"],
    [domain |-> "example.com", force |-> TRUE, level |-> "level2", unknown |-> "x"],
    [domain |-> "example.com", level |-> "LEVEL1"],
    [domain |-> "news.example.org", force |-> FALSE] }

SellerInputs ==
  { [domain |-> "example.com", seller_id |-> "pub-1"],
    [domain |-> "example.com", seller_id |-> ""],
    [domain |-> "example.com"],
    [domain |-> "", seller_id |-> "pub-1"],
    [seller_id |-> "pub-1"] }

BatchSellerInputs ==
  { [domain |-> "example.com", seller_ids |-> ListOf(n)] :
      n \in {0, 1, 2, MaxSellerIds, MaxSellerIds + 1} }
  \cup { [domain |-> "example.com"], [seller_ids |-> ListOf(2)],
         [domain |-> "", seller_ids |-> ListOf(1)] }

BatchDomainInputs ==
  { [domains |-> ListOf(n)] : n \in {0, 1, 2, MaxDomains, MaxDomains + 1} }
  \cup { EmptyObject }

HelpInputs ==
  { EmptyObject,
    [errorCode |-> "11010"],
    [errorCode |-> "10010", language |-> "ja"],
    [errorCode |-> "99999"],
    [errorCode |-> ""],
    [language |-> "fr"],
    [errorCode |-> "11010", language |-> "EN"] }

\* the argument objects an operation is called with
Inputs(op) ==
  CASE op \in {"validateAdsTxtQuick", "validateAdsTxt", "optimizeAdsTxt"} -> ContentInputs
    [] op \in {"optimizeAdsTxtByDomain", "getAdsTxtCache", "getDomainInfo", "getSellersJson",
               "getSellersJsonMetadata"} -> DomainInputs
    [] op = "getBatchDomainInfo" -> BatchDomainInputs
    [] op = "searchSellersBatch" -> BatchSellerInputs
    [] op = "getSellerById" -> SellerInputs
    [] op = "getErrorHelp" -> HelpInputs

\* the names call-tool is asked for
ToolNames == CatalogTools \cup {"no_such_tool"}

\* the calls made of the client directly
ClientCalls ==
  { [entry |-> "get", config |-> getConfig("/api/sellersJson/example.com")],
    [entry |-> "post",
     config |-> postConfig("/api/adsTxt/optimize", [content |-> "google.com, pub-1, DIRECT"])],
    [entry |-> "post", config |-> postConfigNoData("/api/adsTxt/process")],
    [entry |-> "getRaw", config |-> getRawConfig("/help/en/warnings.md")] }

\* what an attempt of the request can end with: a 2xx response or an error
Outcomes(config) ==
  (IF Has(config, "responseType") THEN { OkResponse(d) : d \in Docs }
   ELSE { OkResponse(b) : b \in OkBodies })
  \cup Errors

(* ---------------------------------------------------------------------- *)
(* ApiClient.get / post / getRaw around the settled axios promise          *)
(* ---------------------------------------------------------------------- *)

IsError(outcome) == Has(outcome, "isAxiosError")

\* get whose catch lets what is no AxiosError through
getRethrowsOthers(outcome, tmo) ==
  IF IsError(outcome)
  THEN (IF outcome.isAxiosError
        THEN [returned |-> [success |-> FALSE, error |-> handleError(outcome, tmo)]]
        ELSE [raised |-> outcome])
  ELSE [returned |-> outcome.data]

get(outcome, tmo) ==
  IF IsError(outcome)
  THEN [returned |-> [success |-> FALSE, error |-> handleError(outcome, tmo)]]
  ELSE [returned |-> outcome.data]

\* post whose failure envelope keeps a data member
postFailureWithData(outcome, tmo) ==
  IF IsError(outcome)
  THEN [returned |-> [success |-> FALSE, data |-> EmptyObject,
                      error |-> handleError(outcome, tmo)]]
  ELSE [returned |-> outcome.data]

post(outcome, tmo) ==
  IF IsError(outcome)
  THEN [returned |-> [success |-> FALSE, error |-> handleError(outcome, tmo)]]
  ELSE [returned |-> outcome.data]

getRaw(outcome, tmo) ==
  IF IsError(outcome)
  THEN [raised |-> handleError(outcome, tmo)]
  ELSE [returned |-> outcome.data]

clientResult(entry, outcome, tmo) ==
  CASE entry = "get" -> get(outcome, tmo)
    [] entry = "post" -> post(outcome, tmo)
    [] entry = "getRaw" -> getRaw(outcome, tmo)

(* ---------------------------------------------------------------------- *)
(* Actions                                                                 *)
(* ---------------------------------------------------------------------- *)

\* the code of frame fr ran up to o: an await of a client call, a return or a throw
Advance(i, fr, o) ==
  IF o.kind = "await"
  THEN /\ pc' = [pc EXCEPT ![i] = "sent"]
       /\ req' = [req EXCEPT ![i] = NewRequest(o.call.entry, o.call.config)]
       /\ frame' = [frame EXCEPT ![i] = [saved |-> o.saved] @@ fr]
       /\ result' = result
  ELSE /\ pc' = [pc EXCEPT ![i] = "done"]
       /\ req' = [req EXCEPT ![i] = NoReq]
       /\ frame' = [frame EXCEPT ![i] = [ended |-> o] @@ fr]
       /\ result' = [result EXCEPT ![i] = IF fr.via = "callTool" THEN Wrap(o) ELSE o]

\* a caller awaits apiClient.get / post / getRaw directly
ClientCall(i) ==
  /\ pc[i] = "idle"
  /\ \E c \in ClientCalls :
       Advance(i, [via |-> "client", step |-> 1], Await(c, EmptyObject))
  /\ UNCHANGED <<processEnv, retries, timeout, active, log, advertised>>

\* a caller awaits an exported tool operation
Invoke(i) ==
  /\ pc[i] = "idle"
  /\ \E op \in Ops : \E input \in Inputs(op) :
       Advance(i, [via |-> "op", op |-> op, input |-> input, step |-> 1], StartOp(op, input))
  /\ UNCHANGED <<processEnv, retries, timeout, active, log, advertised>>

\* the host sends a call-tool request
CallTool(i) ==
  /\ pc[i] = "idle"
  /\ \E name \in ToolNames :
       \E input \in (IF name \in CatalogTools THEN Inputs(OperationOf(name)) ELSE {EmptyObject}) :
         Advance(i, [via |-> "callTool", name |-> name, input |-> input, step |-> 1]
                      @@ (IF name \in switchCases THEN [op |-> OperationOf(name)] ELSE EmptyObject),
                 StartCallTool(name, input))
  /\ UNCHANGED <<processEnv, retries, timeout, active, log, advertised>>

\* the host sends a list-tools request
ListTools ==
  /\ advertised' = tools
  /\ UNCHANGED <<processEnv, retries, timeout, active, pc, req, frame, log, result>>

\* an interceptor that rethrows the error it caught first when the retry fails
interceptorSettlesFirst(r, outcome) ==
  IF IsError(outcome) /\ Has(r, "firstError") THEN r.firstError ELSE outcome

\* what the promise of the request settles with: the outcome of the last
\* attempt, handed up through each `return this.client(error.config)`
interceptorSettles(r, outcome) == outcome

\* the attempt in flight ends; the response interceptor retries or lets the
\* promise settle, and the awaiting code runs on to its next await or its end
Respond(i) ==
  /\ pc[i] = "sent"
  /\ req[i].retryCount <= retries + MaxOverrun
  /\ \E outcome \in Outcomes(req[i].config) :
       LET r == req[i]
           hist == Append(r.hist, Class(outcome))
       IN IF IsError(outcome) /\ interceptorRetries(outcome, r.retryCount, retries)
          THEN /\ req' = [req EXCEPT ![i] = [r EXCEPT !.retryCount = r.retryCount + 1,
                                                       !.pendingDelay = delay(r.retryCount),
                                                       !.hist = hist]
                                                @@ [firstError |-> outcome]]
               /\ pc' = [pc EXCEPT ![i] = "delay"]
               /\ UNCHANGED <<frame, log, result>>
          ELSE LET cr == clientResult(r.entry, interceptorSettles(r, outcome), timeout)
                   fr == frame[i]
                   done == [entry |-> r.entry, config |-> r.config, headers |-> r.headers,
                            attempts |-> r.attempts,
                            retryCount |-> r.retryCount, delays |-> r.delays, hist |-> hist,
                            final |-> outcome, result |-> cr]
                   o == IF fr.via = "client"
                        THEN (IF Has(cr, "raised") THEN Throw(cr.raised)
                              ELSE Return(cr.returned))
                        ELSE ContinueOp(fr.op, Parsed(fr.op, fr.input), fr.step, fr.saved, cr)
               IN /\ log' = [log EXCEPT ![i] = Append(log[i], done)]
                  /\ Advance(i, [fr EXCEPT !.step = fr.step + 1], o)
  /\ UNCHANGED <<processEnv, retries, timeout, active, advertised>>

\* the backoff delay has elapsed: the interceptor issues the request again
TimerFires(i) ==
  /\ pc[i] = "delay"
  /\ req' = [req EXCEPT ![i] = [@ EXCEPT !.attempts = @ + 1,
                                         !.delays = Append(@, req[i].pendingDelay),
                                         !.pendingDelay = 0]]
  /\ pc' = [pc EXCEPT ![i] = "sent"]
  /\ UNCHANGED <<processEnv, retries, timeout, active, frame, log, result, advertised>>

(* ---------------------------------------------------------------------- *)
(* Specifications                                                          *)
(* ---------------------------------------------------------------------- *)

InitState(budgets) ==
  /\ processEnv \in Environments
  /\ retries \in budgets
  /\ timeout = DefaultTimeout
  /\ active = {1}
  /\ pc = [i \in Inv |-> "idle"]
  /\ req = [i \in Inv |-> NoReq]
  /\ frame = [i \in Inv |-> NoFrame]
  /\ log = [i \in Inv |-> << >>]
  /\ result = [i \in Inv |-> NoResult]
  /\ advertised = {}

\* the server: list-tools, call-tool and the exported operations
Init == InitState(0..MaxToolRetries)

Next ==
  \/ ListTools
  \/ \E i \in active : CallTool(i)
  \/ \E i \in active : Invoke(i)
  \/ \E i \in active : Respond(i)
  \/ \E i \in active : TimerFires(i)

Spec == Init /\ [][Next]_vars

\* the client alone: get, post and getRaw called directly
InitClient == InitState((0..MaxRetries) \cup {DefaultRetries})

NextClient ==
  \/ \E i \in active : ClientCall(i)
  \/ \E i \in active : Respond(i)
  \/ \E i \in active : TimerFires(i)

SpecClient == InitClient /\ [][NextClient]_vars

\* the client with two callers at once: the singleton serves both invocations
InitConcurrent ==
  /\ processEnv = EmptyObject
  /\ retries \in 1..MaxToolRetries
  /\ timeout = DefaultTimeout
  /\ active = Inv
  /\ pc = [i \in Inv |-> "idle"]
  /\ req = [i \in Inv |-> NoReq]
  /\ frame = [i \in Inv |-> NoFrame]
  /\ log = [i \in Inv |-> << >>]
  /\ result = [i \in Inv |-> NoResult]
  /\ advertised = {}

SpecConcurrent == InitConcurrent /\ [][NextClient]_vars

\* the server started without API_KEY (no step reads the environment)
InitLive == Init /\ processEnv = EmptyObject

\* the server under the scheduling of the event loop: an attempt in flight
\* ends (axios enforces the timeout) and a pending timer fires
SpecLive ==
  /\ InitLive
  /\ [][Next]_vars
  /\ \A i \in Inv : WF_vars(Respond(i)) /\ WF_vars(TimerFires(i))

(* ---------------------------------------------------------------------- *)
(* Properties                                                              *)
(* ---------------------------------------------------------------------- *)

\* the finished client calls, and those of get and post
FinishedCalls == UNION { { log[i][k] : k \in 1..Len(log[i]) } : i \in Inv }
JsonCalls == { e \in FinishedCalls : e.entry \in {"get", "post"} }
FailedCalls == { e \in FinishedCalls : IsError(e.final) }

\* the normalized error of a failed call, returned in the envelope or raised
ErrorOf(e) == IF Has(e.result, "raised") THEN e.result.raised ELSE e.result.returned.error

\* every attempt of the call was answered with a 5xx status
AllStatus5xx(e) == \A k \in 1..Len(e.hist) : e.hist[k] = "status5xx"

\* the classes of failure the retry policy names
RetryableClasses == {"timeout", "timeoutWithResponse", "status5xx"}

\* C1: get and post never raise: whatever the attempt ended with (2xx, 4xx,
\* 5xx, timeout, network failure, an exception that is no transport error),
\* the call returns a value, and on a failure that value is
\* {success: false, error: {code, message[, details]}}.
C1_GetPostNeverRaise ==
  /\ \A e \in JsonCalls :
       /\ Has(e.result, "returned")
       /\ ~Has(e.result, "raised")
       /\ IsError(e.final) =>
            /\ DOMAIN e.result.returned = {"success", "error"}
            /\ e.result.returned.success = FALSE
            /\ {"code", "message"} \subseteq DOMAIN e.result.returned.error
            /\ DOMAIN e.result.returned.error \subseteq {"code", "message", "details"}
  /\ \A i \in Inv :
       (frame[i].via = "client" /\ pc[i] = "done" /\ log[i][1].entry \in {"get", "post"})
         => result[i].kind = "return"

C1_Witness ==
  \E e \in JsonCalls :
    /\ e.entry = "post"
    /\ Class(e.final) = "other"
    /\ e.result.returned.success = FALSE
    /\ e.result.returned.error.code = "UNKNOWN_ERROR"

\* C2: against a backend that answers every attempt with a 5xx status, one
\* get/post issues exactly 1 + retries attempts (retries retries) and returns
\* {success: false, error}; the code is SERVER_ERROR when the last body has no
\* error member.
C2_Always500Exhausts ==
  \A e \in JsonCalls :
    AllStatus5xx(e) =>
      /\ e.attempts = 1 + retries
      /\ Len(e.delays) = retries
      /\ e.result.returned.success = FALSE
      /\ e.final.response.data \in PlainBodies => e.result.returned.error.code = "SERVER_ERROR"

C2_Witness ==
  \E e \in JsonCalls :
    /\ retries = DefaultRetries
    /\ AllStatus5xx(e)
    /\ e.final.response.status = 500
    /\ e.final.response.data \in PlainBodies
    /\ e.attempts = 4
    /\ e.result.returned.error.code = "SERVER_ERROR"

\* C3: with a budget of at least 2, a get/post whose first two attempts are
\* answered with a 5xx status makes a third attempt, and when that one
\* succeeds the call returns its body, after exactly 3 attempts and 2 waits.
C3_TwoFailuresThenSuccess ==
  \A e \in JsonCalls :
    (retries >= 2 /\ Len(e.hist) >= 2 /\ e.hist[1] = "status5xx" /\ e.hist[2] = "status5xx")
      => /\ Len(e.hist) >= 3
         /\ e.hist[3] = "ok" =>
              /\ e.attempts = 3
              /\ Len(e.delays) = 2
              /\ e.result = [returned |-> e.final.data]

C3_Witness ==
  \E e \in JsonCalls :
    /\ e.hist = <<"status5xx", "status5xx", "ok">>
    /\ e.attempts = 3
    /\ Has(e.final.data, "success") /\ e.final.data.success = TRUE
    /\ e.result.returned = e.final.data

\* the delays a request has awaited, with the one pending
AwaitedDelays(r) ==
  IF r.pendingDelay > 0 THEN Append(r.delays, r.pendingDelay) ELSE r.delays

\* C4: the wait before the retry that follows attempt a (a = 0, 1, 2, ...) is
\* 1000 ms * 2^a: the first is 1000 and each next one is twice the one
\* before, so the delays increase strictly; and a retry is issued only once
\* its delay has elapsed: every attempt after the first follows a finished wait.
C4_ExponentialBackoff ==
  /\ \A i \in Inv :
       pc[i] \in {"sent", "delay"} =>
         LET d == AwaitedDelays(req[i])
         IN /\ (d # << >> => d[1] = 1000)
            /\ \A k \in 1..(Len(d) - 1) : d[k + 1] = 2 * d[k] /\ d[k + 1] > d[k]
            /\ req[i].attempts = 1 + Len(req[i].delays)
            /\ (pc[i] = "delay" => req[i].pendingDelay > 0 /\ req[i].retryCount = req[i].attempts)
  /\ \A e \in FinishedCalls :
       /\ e.attempts = 1 + Len(e.delays)
       /\ (e.delays # << >> => e.delays[1] = 1000)
       /\ \A k \in 1..(Len(e.delays) - 1) : e.delays[k + 1] = 2 * e.delays[k]

C4_Witness ==
  \E e \in FinishedCalls : e.delays = <<1000, 2000, 4000>> /\ e.attempts = 4

\* C5: while budget remains, a failed attempt is retried exactly when it is of
\* the timeout class or was answered with a status >= 500. An attempt that was
\* followed by a retry was of one of these classes; a call that ended on such
\* a failure had used up its budget; and a request whose first attempt was
\* answered with a 4xx status, failed in the network otherwise, or was
\* answered 2xx (whatever the body says of success) made exactly one attempt.
C5_RetryPolicy ==
  /\ \A e \in FinishedCalls :
       /\ \A k \in 1..(Len(e.hist) - 1) : e.hist[k] \in RetryableClasses
       /\ Class(e.final) \in RetryableClasses => e.retryCount = retries
       /\ e.hist[1] \in {"status4xx", "network", "other", "ok"} => e.attempts = 1
       /\ e.attempts = Len(e.hist)
  /\ \A i \in Inv :
       pc[i] \in {"sent", "delay"} =>
         \A k \in 1..Len(req[i].hist) : req[i].hist[k] \in RetryableClasses

C5_Witness ==
  /\ retries = 3
  /\ \E e \in FinishedCalls :
       /\ e.hist = <<"timeout", "status5xx", "status4xx">>
       /\ e.attempts = 3
       /\ e.retryCount = 2

\* the body of the response an error carries has an error member with a code
CarriesCode(error) ==
  /\ Has(error.response.data, "error")
  /\ Has(error.response.data.error, "code")
  /\ error.response.data.error.code # ""

\* the code the precedence rules give a failure: the first rule that matches
RuleCode(error) ==
  CASE Class(error) \in {"status5xx", "status4xx", "timeoutWithResponse"} /\ CarriesCode(error) ->
         error.response.data.error.code
    [] Class(error) \in {"status5xx", "status4xx", "timeoutWithResponse"} /\ ~CarriesCode(error) ->
         "SERVER_ERROR"
    [] Class(error) = "timeout" -> "TIMEOUT"
    [] Class(error) = "network" -> "NETWORK_ERROR"
    [] Class(error) = "other" -> "UNKNOWN_ERROR"

\* C6: every failure is given the code of the first rule that matches it:
\* (1) a response with a structured error -> its error.code; (2) a response
\* without one -> SERVER_ERROR; (3) no response, timeout class -> TIMEOUT;
\* (4) no response, another network failure -> NETWORK_ERROR; (5) no
\* transport failure -> UNKNOWN_ERROR.
C6_NormalizationPrecedence ==
  \A e \in FailedCalls : ErrorOf(e).code = RuleCode(e.final)

C6_Witness ==
  /\ \E e \in FailedCalls :
       /\ Class(e.final) = "timeoutWithResponse"
       /\ CarriesCode(e.final)
       /\ ErrorOf(e).code = "RATE_LIMIT"

\* C7: when the error response carries a body with error.code and
\* error.message, the normalized error has that code and that message, and its
\* details are the whole response body.
C7_StructuredErrorVerbatim ==
  \A e \in FailedCalls :
    (Has(e.final, "response") /\ e.final.response.data \in StructuredBodies) =>
      /\ ErrorOf(e).code = e.final.response.data.error.code
      /\ ErrorOf(e).message = e.final.response.data.error.message
      /\ Has(ErrorOf(e), "details")
      /\ ErrorOf(e).details = e.final.response.data

C7_Witness ==
  \E e \in FailedCalls :
    /\ Has(e.final, "response")
    /\ e.final.response.status = 404
    /\ ErrorOf(e) = [code |-> "NOT_FOUND", message |-> "Domain not found",
                     details |-> [error |-> [code |-> "NOT_FOUND", message |-> "Domain not found"],
                                  requestId |-> "r-17"]]

\* the normalized error of a timeout
IsTimeoutDetail(detail) ==
  detail = [code |-> "TIMEOUT", message |-> "Request timeout", details |-> [timeout |-> timeout]]

MissingOrEmpty(input, k) == k \notin DOMAIN input \/ input[k] = ""

\* the list is given with no item or with more than max items
EmptyOrLonger(input, k, max) ==
  k \in DOMAIN input /\ (Len(input[k]) = 0 \/ Len(input[k]) > max)

\* the key is given with a value outside the allowed ones
Outside(input, k, allowed) == k \in DOMAIN input /\ input[k] \notin allowed

\* the input violates a documented constraint of the operation
ViolatesDocumented(op, input) ==
  \/ op \in {"validateAdsTxtQuick", "validateAdsTxt", "optimizeAdsTxt"}
       /\ MissingOrEmpty(input, "content")
  \/ op \in {"optimizeAdsTxtByDomain", "getAdsTxtCache", "getDomainInfo", "getSellersJson",
             "getSellersJsonMetadata", "searchSellersBatch", "getSellerById"}
       /\ MissingOrEmpty(input, "domain")
  \/ op = "getSellerById" /\ MissingOrEmpty(input, "seller_id")
  \/ op = "searchSellersBatch" /\ EmptyOrLonger(input, "seller_ids", 100)
  \/ op = "getBatchDomainInfo" /\ EmptyOrLonger(input, "domains", 50)
  \/ op \in {"optimizeAdsTxt", "optimizeAdsTxtByDomain"} /\ Outside(input, "level", {"level1", "level2"})
  \/ op = "getErrorHelp" /\ Outside(input, "language", {"en", "ja"})

\* the invocation made no network call
NoNetworkCall(i) == pc[i] = "done" /\ log[i] = << >> /\ req[i] = NoReq

\* C9: an input that violates a documented constraint makes the operation
\* raise a validation failure (the schema's ZodError, which the call-tool
\* handler wraps) before any HTTP request: the invocation makes no network
\* call. A call-tool request with such an input makes none either, whatever
\* the handler does with the name.
C9_ValidationBeforeNetwork ==
  \A i \in Inv :
    /\ (Has(frame[i], "op") /\ ViolatesDocumented(frame[i].op, frame[i].input)) =>
         /\ NoNetworkCall(i)
         /\ result[i].kind = "throw"
         /\ frame[i].via = "op" =>
              /\ result[i].error.name = "ZodError"
              /\ result[i].error.issues # {}
         /\ frame[i].via = "callTool" =>
              /\ result[i].error.code = "InternalError"
              /\ result[i].error.message # ""
    /\ (frame[i].via = "callTool" /\ frame[i].name \in CatalogTools
          /\ ViolatesDocumented(OperationOf(frame[i].name), frame[i].input)) =>
         NoNetworkCall(i) /\ result[i].kind = "throw"

C9_Witness ==
  \E i \in Inv :
    /\ frame[i].via = "callTool"
    /\ frame[i].name = "search_sellers_batch"
    /\ Has(frame[i].input, "seller_ids") /\ Len(frame[i].input.seller_ids) = 101
    /\ NoNetworkCall(i)
    /\ result[i].kind = "throw"
    /\ result[i].error.message = "[path: seller_ids]"

\* C10 as claimed: every tool of the catalog, optimize_adstxt_by_domain
\* included, is in the answer to list-tools, and a call-tool request for it is
\* routed to its operation and never answered with method-not-found.
C10_CatalogRouted ==
  /\ advertised # {} => CatalogTools \subseteq advertised
  /\ \A i \in Inv :
       (frame[i].via = "callTool" /\ frame[i].name \in CatalogTools) =>
         /\ Has(frame[i], "op")
         /\ frame[i].op = OperationOf(frame[i].name)
         /\ ~(pc[i] = "done" /\ result[i].kind = "throw"
                /\ IsMcpError(result[i].error) /\ result[i].error.code = "MethodNotFound")

\* the invocation runs optimizeAdsTxtByDomain
ByDomain(i) == Has(frame[i], "op") /\ frame[i].op = "optimizeAdsTxtByDomain"

\* the cache fetch did not succeed: success is not true, the data is missing,
\* or its status is not 'success'
CacheFetchFailed(c) ==
  \/ ~(Has(c, "success") /\ c.success = TRUE)
  \/ ~Has(c, "data")
  \/ ~(Has(c.data, "status") /\ c.data.status = "success")

\* a and b agree on the member k: both lack it, or both have the same value
SameMember(a, b, k) == (Has(a, k) <=> Has(b, k)) /\ (Has(a, k) => a[k] = b[k])

\* C11: optimizeAdsTxtByDomain never issues the optimize request when the
\* cache fetch did not succeed: the invocation ends with a raised error after
\* its one GET; and when the envelope was a success whose data is missing or
\* has another status, the error's message names the requested domain.
C11_NoOptimizeAfterFailedFetch ==
  \A i \in Inv :
    (ByDomain(i) /\ Len(log[i]) >= 1 /\ CacheFetchFailed(log[i][1].result.returned)) =>
      /\ pc[i] = "done"
      /\ req[i] = NoReq
      /\ Len(log[i]) = 1
      /\ log[i][1].config.method = "get"
      /\ result[i].kind = "throw"
      /\ (Has(log[i][1].result.returned, "success") /\ log[i][1].result.returned.success = TRUE)
           => result[i].error.message
                = "No ads.txt found for domain: " \o frame[i].input.domain

C11_Witness ==
  \E i \in Inv :
    /\ ByDomain(i)
    /\ Len(log[i]) = 1
    /\ IsSuccess(log[i][1].result.returned)
    /\ Has(log[i][1].result.returned, "data")
    /\ Has(log[i][1].result.returned.data, "status")
    /\ log[i][1].result.returned.data.status = "error"
    /\ Has(log[i][1].result.returned.data, "content")
    /\ pc[i] = "done"
    /\ result[i].kind = "throw"
    /\ result[i].error.message = "No ads.txt found for domain: example.com"

\* C12: within one optimizeAdsTxtByDomain invocation the optimize request is
\* issued only once the cache fetch has returned (the GET is finished before
\* the POST is in flight, and there are no more than these two calls), and
\* the content it sends is the content the cache fetch of the invocation
\* returned.
C12_OptimizeAfterFetch ==
  \A i \in Inv :
    ByDomain(i) =>
      /\ Len(log[i]) <= 2
      /\ (pc[i] \in {"sent", "delay"} /\ log[i] = << >>) => req[i].config.method = "get"
      /\ (pc[i] \in {"sent", "delay"} /\ req[i].config.method = "post") =>
           /\ Len(log[i]) = 1
           /\ log[i][1].config.method = "get"
           /\ ~CacheFetchFailed(log[i][1].result.returned)
           /\ SameMember(req[i].config.data, log[i][1].result.returned.data, "content")
      /\ Len(log[i]) = 2 =>
           /\ log[i][1].config.method = "get"
           /\ log[i][2].config.method = "post"
           /\ SameMember(log[i][2].config.data, log[i][1].result.returned.data, "content")

C12_Witness ==
  \E i \in Inv :
    /\ ByDomain(i)
    /\ pc[i] = "sent"
    /\ Len(log[i]) = 1
    /\ log[i][1].result.returned.data.content = "appnexus.com, 42, RESELLER"
    /\ req[i].config.method = "post"
    /\ req[i].config.data.content = "appnexus.com, 42, RESELLER"

\* the invocation of optimizeAdsTxtByDomain returned after its two calls
ByDomainReturned(i) ==
  ByDomain(i) /\ pc[i] = "done" /\ Len(log[i]) = 2 /\ result[i].kind = "return"

\* the data of the optimize result ({} when the envelope has none)
OptimizeData(i) ==
  IF Has(log[i][2].result.returned, "data") THEN log[i][2].result.returned.data ELSE EmptyObject

\* every member but domain and fetched_at is the optimize result's
OtherMembersFromOptimize(i) ==
  LET value == result[i].value
      opt == OptimizeData(i)
  IN /\ (DOMAIN value) \ {"domain", "fetched_at"} = (DOMAIN opt) \ {"domain", "fetched_at"}
     /\ \A k \in (DOMAIN opt) \ {"domain", "fetched_at"} : value[k] = opt[k]

\* C13 as claimed: the returned domain is the domain of the cache-fetch
\* result and the returned fetched_at is its fetch timestamp; every other
\* member is the optimize result's.
C13_Original ==
  \A i \in Inv :
    ByDomainReturned(i) =>
      /\ SameMember(result[i].value, log[i][1].result.returned.data, "domain")
      /\ SameMember(result[i].value, log[i][1].result.returned.data, "fetched_at")
      /\ OtherMembersFromOptimize(i)

\* C13 amended: the returned domain is the domain the caller asked for
\* (parsed.domain), whatever domain the cache-fetch result names; the returned
\* fetched_at is the cache-fetch result's; every other member is the optimize
\* result's.
C13_MergedResult ==
  \A i \in Inv :
    ByDomainReturned(i) =>
      /\ Has(result[i].value, "domain")
      /\ result[i].value.domain = frame[i].input.domain
      /\ SameMember(result[i].value, log[i][1].result.returned.data, "fetched_at")
      /\ OtherMembersFromOptimize(i)

C13_Witness ==
  \E i \in Inv :
    /\ ByDomainReturned(i)
    /\ log[i][1].result.returned.data.domain = "cdn.example.com"
    /\ Has(OptimizeData(i), "domain")
    /\ OptimizeData(i).domain = "backend.example"
    /\ Has(result[i].value, "x_extra")
    /\ result[i].value.domain = "example.com"
    /\ result[i].value.fetched_at = "2025-01-01T00:00:00Z"
    /\ result[i].value.x_extra = "kept"

\* the operations that make one envelope call (get or post) and hand its data on
SingleCallOps == Ops \ {"optimizeAdsTxtByDomain", "getErrorHelp"}

\* the invocation runs a single-call operation whose one call has settled
SingleCallSettled(i) ==
  Has(frame[i], "op") /\ frame[i].op \in SingleCallOps /\ Len(log[i]) >= 1

\* C14: a single-call tool operation whose backend envelope has success true
\* returns envelope.data unchanged (undefined when the envelope has none);
\* otherwise it raises an error whose message is the envelope's error.message,
\* or the operation's fixed generic message when that is absent or empty, and
\* returns no value.
C14_EnvelopeToResult ==
  \A i \in Inv :
    SingleCallSettled(i) =>
      LET env == log[i][1].result.returned
      IN /\ pc[i] = "done"
         /\ Len(log[i]) = 1
         /\ Has(frame[i], "ended")
         /\ IF Has(env, "success") /\ env.success = TRUE
            THEN /\ frame[i].ended.kind = "return"
                 /\ Has(frame[i].ended, "value") <=> Has(env, "data")
                 /\ Has(env, "data") => frame[i].ended.value = env.data
            ELSE /\ frame[i].ended.kind = "throw"
                 /\ ~Has(frame[i].ended, "value")
                 /\ frame[i].ended.error.name = "Error"
                 /\ frame[i].ended.error.message =
                      IF Has(env, "error") /\ Has(env.error, "message") /\ env.error.message # ""
                      THEN env.error.message
                      ELSE GenericMessage(frame[i].op, 1)

C14_Witness ==
  \E i \in Inv :
    /\ SingleCallSettled(i)
    /\ frame[i].op = "getSellersJson"
    /\ ~IsSuccess(log[i][1].result.returned)
    /\ Has(log[i][1].result.returned, "error")
    /\ log[i][1].result.returned.error.message = "No cache for domain"
    /\ frame[i].ended.kind = "throw"
    /\ frame[i].ended.error.message = "No cache for domain"

\* the required string is given and not empty
Given(input, k) == k \in DOMAIN input /\ input[k] # ""

\* the list is given with 1 to max items
ListWithin(input, k, max) ==
  k \in DOMAIN input /\ Len(input[k]) >= 1 /\ Len(input[k]) <= max

\* the optional value is omitted or one of the allowed ones
OmittedOrIn(input, k, allowed) == k \in DOMAIN input => input[k] \in allowed

\* the input is within the documented bounds of the operation
WithinDocumented(op, input) ==
  /\ op \in {"validateAdsTxtQuick", "validateAdsTxt", "optimizeAdsTxt"} => Given(input, "content")
  /\ op \in {"optimizeAdsTxtByDomain", "getAdsTxtCache", "getDomainInfo", "getSellersJson",
             "getSellersJsonMetadata", "searchSellersBatch", "getSellerById"}
       => Given(input, "domain")
  /\ op = "getSellerById" => Given(input, "seller_id")
  /\ op = "searchSellersBatch" => ListWithin(input, "seller_ids", 100)
  /\ op = "getBatchDomainInfo" => ListWithin(input, "domains", 50)
  /\ op \in {"optimizeAdsTxt", "optimizeAdsTxtByDomain"}
       => OmittedOrIn(input, "level", {"level1", "level2"})
  /\ op = "getErrorHelp" => OmittedOrIn(input, "language", {"en", "ja"})

\* the supplied value of k, or the documented default when k is omitted
SuppliedOr(input, k, default) == IF k \in DOMAIN input THEN input[k] ELSE default

\* the body carries input[from] as its member k, and lacks k when the input lacks from
CarriesAs(body, k, input, from) ==
  (k \in DOMAIN body <=> from \in DOMAIN input) /\ (from \in DOMAIN input => body[k] = input[from])

\* the URL of the first backend call, with the supplied values in their places
DocumentedUrl(op, input) ==
  CASE op = "validateAdsTxtQuick" -> "/api/v1/adstxt/validate/quick"
    [] op = "validateAdsTxt" -> "/api/adsTxt/process"
    [] op = "optimizeAdsTxt" -> "/api/adsTxt/optimize"
    [] op \in {"optimizeAdsTxtByDomain", "getAdsTxtCache"} ->
         "/api/adsTxtCache/domain/" \o input.domain
           \o (IF SuppliedOr(input, "force", FALSE) THEN "?force=true" ELSE "")
    [] op = "getDomainInfo" -> "/api/v1/domains/" \o input.domain \o "/info"
    [] op = "getBatchDomainInfo" -> "/api/v1/domains/batch/info"
    [] op = "getSellersJson" -> "/api/sellersJson/" \o input.domain
    [] op = "getSellersJsonMetadata" -> "/api/sellersJson/" \o input.domain \o "/metadata"
    [] op = "searchSellersBatch" -> "/api/v1/sellersjson/" \o input.domain \o "/sellers/batch"
    [] op = "getSellerById" ->
         "/api/sellersJson/" \o input.domain \o "/seller/" \o input.seller_id
    [] op = "getErrorHelp" ->
         "/help/" \o SuppliedOr(input, "language", "en") \o "/warnings.md"

\* the body of the first backend call carries the supplied values verbatim
\* and the documented defaults for what was omitted
DocumentedBody(op, input, body) ==
  CASE op = "validateAdsTxtQuick" ->
         /\ DOMAIN body = {"content", "checkDuplicates"}
         /\ body.content = input.content
         /\ body.checkDuplicates = SuppliedOr(input, "checkDuplicates", TRUE)
    [] op = "validateAdsTxt" ->
         /\ DOMAIN body \subseteq {"content", "publisher_domain"}
         /\ CarriesAs(body, "content", input, "content")
         /\ CarriesAs(body, "publisher_domain", input, "publisherDomain")
    [] op = "optimizeAdsTxt" ->
         /\ DOMAIN body \subseteq {"content", "publisher_domain", "level"}
         /\ CarriesAs(body, "content", input, "content")
         /\ CarriesAs(body, "publisher_domain", input, "publisher_domain")
         /\ "level" \in DOMAIN body
         /\ body.level = SuppliedOr(input, "level", "level1")
    [] op = "getBatchDomainInfo" ->
         DOMAIN body = {"domains"} /\ body.domains = input.domains
    [] op = "searchSellersBatch" ->
         DOMAIN body = {"seller_ids"} /\ body.seller_ids = input.seller_ids

\* the config of the first client call of the invocation
FirstConfig(i) == IF log[i] # << >> THEN log[i][1].config ELSE req[i].config

\* C15: an input within the documented bounds passes the operation's
\* validation (a backend call is made), and the first backend call carries
\* the supplied values verbatim: content, level, seller_ids and domains in the
\* body (lists as given), domain and seller_id in the URL; an omitted optional
\* field takes its documented default and nothing else is changed.
C15_ValidInputVerbatim ==
  \A i \in Inv :
    (Has(frame[i], "op") /\ WithinDocumented(frame[i].op, frame[i].input)) =>
      /\ log[i] # << >> \/ pc[i] \in {"sent", "delay"}
      /\ FirstConfig(i).url = DocumentedUrl(frame[i].op, frame[i].input)
      /\ IF FirstConfig(i).method = "post"
         THEN /\ Has(FirstConfig(i), "data")
              /\ DocumentedBody(frame[i].op, frame[i].input, FirstConfig(i).data)
         ELSE ~Has(FirstConfig(i), "data")

C15_Witness ==
  \E i \in Inv :
    /\ Has(frame[i], "op")
    /\ frame[i].op = "optimizeAdsTxt"
    /\ Has(frame[i].input, "level")
    /\ frame[i].input.level = "level2"
    /\ WithinDocumented(frame[i].op, frame[i].input)
    /\ pc[i] = "sent"
    /\ req[i].config.data.level = "level2"
    /\ req[i].config.data.publisher_domain = "example.org"

\* the call-tool request of the invocation has failed
CallToolFailed(i) ==
  frame[i].via = "callTool" /\ pc[i] = "done" /\ frame[i].ended.kind = "throw"

\* C16: a failed call-tool request ends with one McpError: MethodNotFound,
\* with no backend call, when the name is not one of the server's tools;
\* otherwise InternalError with the message of the error the operation
\* raised; an error that is an McpError already reaches the caller as it is.
C16_OneProtocolError ==
  \A i \in Inv :
    /\ CallToolFailed(i) =>
         /\ result[i].kind = "throw"
         /\ IsMcpError(result[i].error)
         /\ result[i].error.code \in {"MethodNotFound", "InternalError"}
         /\ frame[i].name \notin tools =>
              /\ result[i].error.code = "MethodNotFound"
              /\ NoNetworkCall(i)
         /\ frame[i].name \in tools =>
              /\ ~IsMcpError(frame[i].ended.error)
              /\ result[i].error.code = "InternalError"
              /\ result[i].error.message = frame[i].ended.error.message
         /\ IsMcpError(frame[i].ended.error) => result[i] = frame[i].ended
    /\ (frame[i].via = "callTool" /\ pc[i] = "done" /\ frame[i].ended.kind = "return")
         => result[i].kind = "return"

C16_Witness ==
  \E i \in Inv :
    /\ CallToolFailed(i)
    /\ frame[i].name = "get_sellers_json"
    /\ Len(log[i]) = 1
    /\ frame[i].ended.error.message = "No cache for domain"
    /\ result[i].error.code = "InternalError"
    /\ result[i].error.message = "No cache for domain"

\* C17: an input that fails the operation's validation is rejected with a
\* failure identified as VALIDATION_ERROR, carrying the fields that violate
\* the schema.
C17_ValidationErrorClass ==
  \A i \in Inv :
    (Has(frame[i], "op") /\ pc[i] = "done" /\ Issues(frame[i].op, frame[i].input) # {}) =>
      /\ result[i].kind = "throw"
      /\ Has(result[i].error, "code")
      /\ result[i].error.code = "VALIDATION_ERROR"
      /\ Has(result[i].error, "issues") \/ Has(result[i].error, "details")

\* the invocation ended on a client call that returned a failure envelope
\* with a normalized error
EndedOnBackendFailure(i) ==
  /\ Has(frame[i], "op")
  /\ frame[i].op # "getErrorHelp"
  /\ pc[i] = "done"
  /\ Len(log[i]) >= 1
  /\ ~IsSuccess(log[i][Len(log[i])].result.returned)
  /\ Has(log[i][Len(log[i])].result.returned, "error")
  /\ Has(log[i][Len(log[i])].result.returned.error, "code")

\* C18: when a tool call ends on a backend failure, the failure the caller
\* receives carries the code and the details of the normalized error, not
\* only its message.
C18_CodeAndDetailsPreserved ==
  \A i \in Inv :
    EndedOnBackendFailure(i) =>
      LET error == log[i][Len(log[i])].result.returned.error
      IN /\ result[i].kind = "throw"
         /\ SameMember(result[i].error, error, "code")
         /\ SameMember(result[i].error, error, "details")

\* success = true implies error is absent, success = false implies data is absent
EnvelopeInvariant(env) ==
  /\ (Has(env, "success") /\ env.success = TRUE) => ~Has(env, "error")
  /\ (Has(env, "success") /\ env.success = FALSE) => ~Has(env, "data")

\* C19 as claimed: every envelope get and post return, relayed or built
\* locally, satisfies the envelope invariant.
C19_Original == \A e \in JsonCalls : EnvelopeInvariant(e.result.returned)

\* C19 amended: an envelope get or post builds on a failure is
\* {success: false, error} and satisfies the envelope invariant; an envelope
\* relayed from a 2xx response is the response body as it came, unchecked, so
\* it satisfies the invariant exactly when the backend's body does.
C19_EnvelopeInvariant ==
  \A e \in JsonCalls :
    IF IsError(e.final)
    THEN /\ Has(e.result.returned, "success")
         /\ e.result.returned.success = FALSE
         /\ Has(e.result.returned, "error")
         /\ ~Has(e.result.returned, "data")
         /\ EnvelopeInvariant(e.result.returned)
    ELSE /\ e.result.returned = e.final.data
         /\ EnvelopeInvariant(e.result.returned) <=> e.final.data \notin MixedBodies

C19_Witness ==
  \E e \in JsonCalls :
    /\ e.entry = "post"
    /\ IsError(e.final)
    /\ Has(e.final, "response")
    /\ Has(e.final.response, "data")
    /\ e.result.returned.success = FALSE
    /\ ~Has(e.result.returned, "data")
    /\ EnvelopeInvariant(e.result.returned)

\* the heading lines of a deeper level, which start with '###' too
DeeperHeadings == {"#### Details"}

\* the line is a level-3 heading
IsLevel3Heading(line) == line.startsWithH3 /\ line.text \notin DeeperHeadings

\* the lines of the document that carry the marker inside a level-3 section
MarkedInSection(content, errorCode) ==
  { i \in 1..Len(content) :
      /\ errorCode \in content[i].marks
      /\ \E j \in 1..i : IsLevel3Heading(content[j]) }

\* the level-3 section around the first such line, trimmed
ExpectedSection(content, errorCode) ==
  LET hits == MarkedInSection(content, errorCode)
      i == CHOOSE h \in hits : \A g \in hits : h <= g
      heads == { j \in 1..i : IsLevel3Heading(content[j]) }
      nexts == { j \in (i + 1)..Len(content) : IsLevel3Heading(content[j]) }
      startIdx == CHOOSE j \in heads : \A g \in heads : g <= j
      endIdx == IF nexts = {} THEN Len(content) + 1
                ELSE CHOOSE j \in nexts : \A g \in nexts : j <= g
  IN Trim(SubSeq(content, startIdx, endIdx - 1))

\* C20: when the marker of the requested errorCode occurs in a level-3
\* section of the fetched document, getErrorHelp returns exactly the trimmed
\* span from the nearest preceding level-3 heading up to, but excluding, the
\* next level-3 heading or the end of the document.
C20_SectionExtraction ==
  \A i \in Inv :
    ( /\ Has(frame[i], "op")
      /\ frame[i].op = "getErrorHelp"
      /\ pc[i] = "done"
      /\ Len(log[i]) = 1
      /\ Has(log[i][1].result, "returned")
      /\ Has(frame[i].input, "errorCode")
      /\ MarkedInSection(log[i][1].result.returned, frame[i].input.errorCode) # {} ) =>
      /\ frame[i].ended.kind = "return"
      /\ frame[i].ended.value.content
           = ExpectedSection(log[i][1].result.returned, frame[i].input.errorCode)

\* the invocation of getErrorHelp ended after the document was fetched
HelpFetched(i) ==
  /\ Has(frame[i], "op")
  /\ frame[i].op = "getErrorHelp"
  /\ pc[i] = "done"
  /\ Len(log[i]) = 1
  /\ Has(log[i][1].result, "returned")

\* the marker of the requested errorCode occurs in the fetched document
MarkerOccurs(i) ==
  /\ Has(frame[i].input, "errorCode")
  /\ \E k \in 1..Len(log[i][1].result.returned) :
       frame[i].input.errorCode \in log[i][1].result.returned[k].marks

\* C21: getErrorHelp returns the full fetched document, unmodified, when no
\* error code was requested or the marker of the requested code does not
\* occur in the document, and a section, never the full document, when the
\* marker occurs.
C21_FullDocumentOrSection ==
  \A i \in Inv :
    HelpFetched(i) =>
      /\ frame[i].ended.kind = "return"
      /\ IF MarkerOccurs(i)
         THEN frame[i].ended.value.content # log[i][1].result.returned
         ELSE frame[i].ended.value = [content |-> log[i][1].result.returned]

\* the invocation returned the data of its last backend call
ReturnedPayload(i) ==
  /\ Has(frame[i], "op")
  /\ frame[i].op # "getErrorHelp"
  /\ pc[i] = "done"
  /\ Len(log[i]) >= 1
  /\ frame[i].ended.kind = "return"
  /\ Has(log[i][Len(log[i])].result.returned, "data")

\* the data payload of the last backend call of the invocation
LastPayload(i) == log[i][Len(log[i])].result.returned.data

\* the value carries every member of the payload but those of skip, unchanged
CarriesPayload(value, payload, skip) ==
  \A k \in (DOMAIN payload) \ skip : k \in DOMAIN value /\ value[k] = payload[k]

\* C22 as claimed: for every tool, every member of the backend's data payload
\* appears unchanged in the value returned to the caller.
C22_Original ==
  \A i \in Inv :
    ReturnedPayload(i) => CarriesPayload(frame[i].ended.value, LastPayload(i), {})

\* C22 amended: a single-call tool returns the backend's data payload as it
\* came, unknown members included; optimizeAdsTxtByDomain returns the members
\* of the optimize payload unchanged except domain and fetched_at, which it
\* replaces with the requested domain and the cache result's timestamp.
C22_PayloadRoundTrip ==
  \A i \in Inv :
    ReturnedPayload(i) =>
      IF frame[i].op = "optimizeAdsTxtByDomain"
      THEN CarriesPayload(frame[i].ended.value, LastPayload(i), {"domain", "fetched_at"})
      ELSE frame[i].ended.value = LastPayload(i)

C22_Witness ==
  \E i \in Inv :
    /\ ReturnedPayload(i)
    /\ frame[i].op = "optimizeAdsTxt"
    /\ Has(LastPayload(i), "x_extra")
    /\ Has(frame[i].ended.value, "x_extra")
    /\ frame[i].ended.value.x_extra = "kept"
    /\ frame[i].ended.value.domain = "backend.example"

\* C23: a call-tool request that does not fail returns one text item whose
\* text is the JSON serialization of the operation's result, a string; a call
\* ends with a result or with an error, not both.
C23_TextPayload ==
  \A i \in Inv :
    (frame[i].via = "callTool" /\ pc[i] = "done") =>
      /\ result[i].kind \in {"return", "throw"}
      /\ Has(result[i], "value") # Has(result[i], "error")
      /\ frame[i].ended.kind = "return" =>
           /\ result[i].kind = "return"
           /\ Len(result[i].value.content) = 1
           /\ result[i].value.content[1].type = "text"
           /\ Has(result[i].value.content[1], "text")
           /\ Has(frame[i].ended, "value")
           /\ result[i].value.content[1].text = [json |-> frame[i].ended.value]

\* the requests of the client: those in flight and those finished
IssuedRequests ==
  { req[i] : i \in { j \in Inv : Has(req[j], "headers") } } \cup FinishedCalls

\* the request carries the configured API key in one of its headers
CarriesCredential(r) == \E h \in DOMAIN r.headers : r.headers[h] = processEnv.API_KEY

\* C24: when API_KEY is set in the environment, every request the client
\* issues to the backend carries that credential.
C24_RequestsAuthenticated ==
  Has(processEnv, "API_KEY") => \A r \in IssuedRequests : CarriesCredential(r)

\* a step leaves the requests and the finished calls of the other invocations alone
OthersUntouched(i) ==
  \A j \in Inv \ {i} : req'[j] = req[j] /\ log'[j] = log[j] /\ pc'[j] = pc[j]

\* C25: the retry state belongs to one logical request. A new top-level call
\* starts with retry count zero, whatever the other request has reached; a
\* step of one request (failure, backoff wait, retry, end) changes nothing of
\* the other; and each request's count stays within the budget R.
C25_RetryStatePerRequest ==
  /\ [](\A i \in Inv :
          /\ Has(req[i], "retryCount") => req[i].retryCount <= retries
          /\ \A k \in 1..Len(log[i]) : log[i][k].retryCount <= retries)
  /\ [][\A i \in Inv :
          /\ (pc[i] = "idle" /\ pc'[i] = "sent") =>
               req'[i].retryCount = 0 /\ req'[i].attempts = 1
          /\ (req'[i] # req[i] \/ pc'[i] # pc[i]) => OthersUntouched(i)]_vars

C25_Witness ==
  /\ pc[1] = "done"
  /\ Len(log[1]) = 1
  /\ log[1][1].retryCount = retries
  /\ IsError(log[1][1].final)
  /\ pc[2] = "sent"
  /\ req[2].retryCount = 0
  /\ req[2].attempts = 1

\* the class of the last attempt of a finished call
LastClass(e) == e.hist[Len(e.hist)]

\* C26: a failed call's envelope (or raised error) is the normalization of
\* the failure of its last attempt, whatever the earlier attempts failed
\* with: a run of 5xx responses that ends in a timeout gives TIMEOUT, one that
\* ends in a network failure gives NETWORK_ERROR, one that ends in a response
\* gives the response's details.
C26_LastFailureNormalized ==
  \A e \in FailedCalls :
    /\ Len(e.hist) = e.attempts
    /\ LastClass(e) = Class(e.final)
    /\ ErrorOf(e) = handleError(e.final, timeout)
    /\ LastClass(e) = "timeout" =>
         ErrorOf(e).code = "TIMEOUT" /\ ErrorOf(e).message = "Request timeout"
    /\ LastClass(e) = "network" => ErrorOf(e).code = "NETWORK_ERROR"
    /\ LastClass(e) \in {"status5xx", "status4xx", "timeoutWithResponse"} =>
         ErrorOf(e).details = e.final.response.data

C26_Witness ==
  \E e \in FailedCalls :
    /\ e.entry = "get"
    /\ retries = 3
    /\ e.hist = <<"status5xx", "status5xx", "status5xx", "timeout">>
    /\ e.result.returned.error.code = "TIMEOUT"

\* an invocation has an attempt in flight or a backoff timer pending
Pending == \E i \in Inv : pc[i] \in {"sent", "delay"}

\* C27: under that scheduling, whenever an invocation has a request in flight
\* or a backoff timer pending, a state follows in which none has: every
\* started invocation has ended, with a result or an error. Nothing takes a
\* started invocation back (there is no cancellation) and an ended one stays
\* ended.
C27_Termination ==
  /\ Pending ~> ~Pending
  /\ [][\A i \in Inv : (pc[i] # "idle" => pc'[i] # "idle")
                         /\ (pc[i] = "done" => pc'[i] = "done")]_vars

C27_Witness ==
  \E i \in Inv :
    /\ pc[i] = "done"
    /\ frame[i].via = "callTool"
    /\ Len(log[i]) = 1
    /\ retries >= 1
    /\ log[i][1].retryCount = retries
    /\ IsError(log[i][1].final)
    /\ result[i].kind = "throw"

\* the requests in flight
InFlight == { i \in Inv : Has(req[i], "retryCount") }

\* C29: one logical request makes at most 1 + R attempts, whatever mix of
\* timeouts and 5xx responses it meets: one retry count serves both classes,
\* it goes up by exactly one with each retry and never passes R.
C29_AttemptsBounded ==
  /\ [](/\ \A i \in InFlight :
             /\ req[i].retryCount <= retries
             /\ req[i].attempts <= 1 + retries
             /\ req[i].attempts = req[i].retryCount + (IF pc[i] = "sent" THEN 1 ELSE 0)
        /\ \A e \in FinishedCalls :
             /\ e.attempts <= 1 + retries
             /\ e.attempts = e.retryCount + 1
             /\ Len(e.hist) = e.attempts
             /\ \A k \in 1..(Len(e.hist) - 1) : e.hist[k] \in RetryableClasses)
  /\ [][\A i \in Inv :
          (pc[i] = "sent" /\ pc'[i] = "delay") =>
            req'[i].retryCount = req[i].retryCount + 1]_vars

C29_Witness ==
  \E e \in FinishedCalls :
    /\ retries = 3
    /\ e.attempts = 4
    /\ e.hist = <<"timeout", "status5xx", "timeout", "status5xx">>

\* C28: getRaw returns the raw body on success and raises on failure, and
\* when the fetch of the help document fails getErrorHelp raises an error
\* whose message is 'Failed to fetch error help: ' followed by the message of
\* the normalized failure.
C28_HelpFailureReason ==
  \A i \in Inv :
    (Has(frame[i], "op") /\ frame[i].op = "getErrorHelp" /\ Len(log[i]) = 1) =>
      /\ log[i][1].entry = "getRaw"
      /\ IF IsError(log[i][1].final)
         THEN /\ Has(log[i][1].result, "raised")
              /\ ~Has(log[i][1].result, "returned")
              /\ frame[i].ended.kind = "throw"
              /\ frame[i].ended.error.message
                   = "Failed to fetch error help: " \o log[i][1].result.raised.message
         ELSE /\ Has(log[i][1].result, "returned")
              /\ log[i][1].result.returned = log[i][1].final.data

\* the lines of the fetched document that match the marker of the requested code
MarkerLines(i) ==
  IF Has(frame[i].input, "errorCode") /\ frame[i].input.errorCode # ""
  THEN { k \in 1..Len(log[i][1].result.returned) :
           frame[i].input.errorCode \in log[i][1].result.returned[k].marks }
  ELSE {}

\* the first of them
FirstMarkerLine(i) == CHOOSE k \in MarkerLines(i) : \A g \in MarkerLines(i) : k <= g

\* the lines starting with '###' up to the first marker line, and those after it
BoundariesBefore(i) ==
  { j \in 1..FirstMarkerLine(i) : log[i][1].result.returned[j].startsWithH3 }
BoundariesAfter(i) ==
  { j \in (FirstMarkerLine(i) + 1)..Len(log[i][1].result.returned) :
      log[i][1].result.returned[j].startsWithH3 }

\* a section is extracted: the first marker line has a '###' line at or before it
SectionFound(i) == MarkerLines(i) # {} /\ BoundariesBefore(i) # {}

\* the span from the nearest '###' line before the first marker line up to
\* the next '###' line after it, trimmed
SpanOfFirstMarker(i) ==
  LET doc == log[i][1].result.returned
      startIdx == CHOOSE j \in BoundariesBefore(i) : \A g \in BoundariesBefore(i) : g <= j
      endIdx == IF BoundariesAfter(i) = {} THEN Len(doc) + 1
                ELSE CHOOSE j \in BoundariesAfter(i) : \A g \in BoundariesAfter(i) : j <= g
  IN Trim(SubSeq(doc, startIdx, endIdx - 1))

\* the url of the section: the anchor of the table, or 'invalid-format'
SectionUrl(i) ==
  "https://adstxt-manager.jp/help/" \o SuppliedOr(frame[i].input, "language", "en")
    \o "/warnings.md#"
    \o (IF frame[i].input.errorCode \in DOMAIN anchorMap
        THEN anchorMap[frame[i].input.errorCode] ELSE "invalid-format")

\* C30: the extraction looks at the first line matching the marker only and
\* takes every line starting with '###' ('####' too) as a boundary. If that
\* line has no '###' line at or before it, the result is the full document
\* with no url, even when a later section carries the marker; otherwise the
\* result is the trimmed span between the boundaries around it, with a url
\* whose anchor is the table's entry for the code or 'invalid-format'. A url
\* is returned exactly when a section was extracted.
C30_FirstMarkerAndBoundaries ==
  \A i \in Inv :
    HelpFetched(i) =>
      /\ frame[i].ended.kind = "return"
      /\ Has(frame[i].ended.value, "url") <=> SectionFound(i)
      /\ IF SectionFound(i)
         THEN frame[i].ended.value = [content |-> SpanOfFirstMarker(i), url |-> SectionUrl(i)]
         ELSE frame[i].ended.value = [content |-> log[i][1].result.returned]

C30_Witness ==
  \E i \in Inv :
    /\ HelpFetched(i)
    /\ MarkerLines(i) = {1, 3}
    /\ log[i][1].result.returned[2].startsWithH3
    /\ ~SectionFound(i)
    /\ frame[i].ended.value = [content |-> log[i][1].result.returned]

====
